---- MODULE Spec2Model ----
(***************************************************************************)
(* Model of the /dev/fuse transport Writer of fuse-backend-rs              *)
(* (src/transport/fusedev/mod.rs).                                         *)
(*                                                                         *)
(* The destination memory of all messages is one heap `mem`; a Writer's    *)
(* `buf` (a Vec built with from_raw_parts over that memory) is the triple  *)
(* ptr/len/cap into it.  The device is observed through the write and      *)
(* writev requests each call issues.                                       *)
(***************************************************************************)
EXTENDS Integers, Sequences, FiniteSets, TLC

\* ------------------------------------------------------------------ bounds
\* Largest destination region handed to Writer::new.
MaxCap == 2
\* Objects followed in one run: the writers (made by new and by split_at)
\* plus the messages after the first.
MaxWriters == 3
\* Reader objects followed in one run.
MaxReaders == 2

VARIABLES
    mem,      \* the destination memory of all messages, a sequence of bytes
    writers,  \* the Writer objects: [fd, ptr, len, cap, buffered]
    ghost,    \* per writer, history of the data its calls accepted
    sent,     \* per fd (message), whether a device write was issued for it
    pc,       \* position inside a looping or suspended call, or idle
    last,     \* the last call: operation, arguments, result, device requests
    readers   \* the Reader objects: the regions left to read, bytes consumed

vars == <<mem, writers, ghost, sent, pc, last, readers>>

\* ----------------------------------------------------------------- helpers
Min(a, b) == IF a < b THEN a ELSE b

RECURSIVE Zeros(_)
Zeros(n) == IF n = 0 THEN <<>> ELSE <<0>> \o Zeros(n - 1)

RECURSIVE Flatten(_)
Flatten(ss) == IF ss = <<>> THEN <<>> ELSE Head(ss) \o Flatten(Tail(ss))

\* mem with `data` stored from 0-based address `at`.
Store(m, at, data) ==
    [i \in 1..Len(m) |->
        IF i > at /\ i <= at + Len(data) THEN data[i - at] ELSE m[i]]

Ids == 1..Len(writers)

\* The result of a call: kind is "Ok", an error kind or "panic"; val is the
\* count returned (the offset for SplitOutOfBounds).
Ret(kind, val) == [kind |-> kind, val |-> val]

NoPre == [fd |-> 0, ptr |-> 0, len |-> 0, cap |-> 0, buffered |-> FALSE]
PreOf(w) == w

\* One device request: the syscall and the segments handed to it.
Req(call, segs) == [call |-> call, segs |-> segs]

\* The record of a call.  `pre` is the receiver before the call, `dev` the
\* device requests the call issued, `again` whether it issued a device write
\* for a message the device had already been written for, `read` whether it
\* read from its source.
Call(op, id, other, req, ret, dev, pre, again) ==
    [op |-> op, w |-> id, other |-> other, req |-> req, ret |-> ret,
     dev |-> dev, pre |-> pre, again |-> again, read |-> FALSE]

Idle == [op |-> "idle", w |-> 0, count |-> 0]

\* The payload of length n that starts with byte b and alternates between 1
\* and 2.  The destination memory starts filled with 0, a value no payload
\* carries, so stale memory is told apart from written data; callers pass
\* payloads that start with 1, sources deliver bytes that start with 2.
Pattern(b, n) == [i \in 1..n |-> IF i % 2 = 1 THEN b ELSE 3 - b]

\* Lengths requested of a writer with `free` bytes left: every length that
\* fits and the first that does not.
Lengths(free) == 0..(free + 1)

\* Arguments of write and write_obj.
DataArgs(free) == {Pattern(1, n) : n \in Lengths(free)}

\* Arguments of write_vectored: a payload cut into three slices at i and j,
\* empty slices included.
SliceArgs(free) ==
    {<<SubSeq(Pattern(1, t[1]), 1, t[2]),
       SubSeq(Pattern(1, t[1]), t[2] + 1, t[3]),
       SubSeq(Pattern(1, t[1]), t[3] + 1, t[1])>> :
        t \in {u \in Lengths(free) \X Lengths(free) \X Lengths(free) :
                  u[2] <= u[3] /\ u[3] <= u[1]}}

\* What the device answers to a request of n bytes: a count up to n
\* (short writes included) or an error.
DevOutcomes(n) == {Ret("Ok", k) : k \in 0..n} \cup {Ret("Err", 0)}

\* What a source answers to a read of count bytes: up to count bytes, the
\* interruption by a signal, or another error of its own.
SrcOutcomes(count) ==
    {[kind |-> "Ok", data |-> Pattern(2, n)] : n \in 0..count}
    \cup {[kind |-> k, data |-> <<>>] : k \in {"Interrupted", "SourceError"}}

\* ------------------------------------------------------------- Writer code
\* The calls below work on a view st = [mem, w, g, dev, src]: the memory, the
\* receiver, its history, the device requests issued so far and whether the
\* source was read; each yields the set of its possible outcomes [ret, st].
View(id) ==
    [mem |-> mem, w |-> writers[id], g |-> ghost[id], dev |-> <<>>,
     src |-> FALSE]

Out(ret, st) == [ret |-> ret, st |-> st]

\* buf.as_slice(): the first len bytes of the writer's region.
Slice(m, w) == SubSeq(m, w.ptr + 1, w.ptr + w.len)

Content(w) == Slice(mem, w)

bytes_written(w) == w.len

available_bytes(w) == w.cap - w.len

\* The check with the request compared to the capacity, not to what is left.
check_against_capacity(w, sz) ==
    IF ~(w.buffered \/ w.len = 0) THEN "panic"
    ELSE IF sz > w.cap THEN "InvalidData"
    ELSE "Ok"

\* "panic" when the assertion fails, else whether sz fits.
check_available_space(w, sz) ==
    IF ~(w.buffered \/ w.len = 0) THEN "panic"
    ELSE IF sz > available_bytes(w) THEN "InvalidData"
    ELSE "Ok"

account_written(w, count) == [w EXCEPT !.len = w.len + count]

\* A Vec made with the region's length as its length, not 0.
NewWriterFull(fd, ptr, cap) ==
    [fd |-> fd, ptr |-> ptr, len |-> cap, cap |-> cap, buffered |-> FALSE]

\* Writer::new: an empty Vec over the whole region, not buffered.
NewWriter(fd, ptr, cap) ==
    [fd |-> fd, ptr |-> ptr, len |-> 0, cap |-> cap, buffered |-> FALSE]

\* History kept for the properties, not read by the code: `calls` is the data
\* of the successful buffered writes made on the writer, in call order; `exp`
\* is the bytes the writer held when it last took part in a split_at followed
\* by the data of its buffered writes since.
NewGhost == [calls |-> <<>>, exp |-> <<>>]

Buffered(g, data) == [calls |-> g.calls \o data, exp |-> g.exp \o data]

\* do_write: one write(2) on the device; every failure becomes kind Other.
do_write(out) == IF out.kind = "Ok" THEN out ELSE Ret("Other", 0)

\* The append that starts at the head of the region, not behind buf.len().
ExtendAtStart(st, data) ==
    [st EXCEPT !.mem = Store(st.mem, st.w.ptr, data),
               !.w = account_written(st.w, Len(data)),
               !.g = Buffered(st.g, data)]

\* extend_from_slice within the capacity: the bytes land behind buf.len().
Extend(st, data) ==
    [st EXCEPT !.mem = Store(st.mem, st.w.ptr + st.w.len, data),
               !.w = account_written(st.w, Len(data)),
               !.g = Buffered(st.g, data)]

\* The unbuffered path of write and write_vectored: one device request, the
\* cursor advanced by what the device took.
Direct(st, req, total) ==
    {Out(do_write(out),
         [st EXCEPT !.w = IF out.kind = "Ok"
                          THEN account_written(st.w, out.val) ELSE st.w,
                    !.dev = Append(st.dev, req)]) :
        out \in DevOutcomes(total)}

\* write without the buffered path: every write goes through to the device.
write_through(st, data) ==
    LET chk == check_available_space(st.w, Len(data)) IN
    IF chk # "Ok" THEN {Out(Ret(chk, 0), st)}
    ELSE Direct(st, Req("write", <<data>>), Len(data))

\* write with the device written before the capacity is checked.
write_checks_late(st, data) ==
    LET chk == check_available_space(st.w, Len(data)) IN
    IF chk = "panic" THEN {Out(Ret(chk, 0), st)}
    ELSE IF st.w.buffered
    THEN IF chk # "Ok" THEN {Out(Ret(chk, 0), st)}
         ELSE {Out(Ret("Ok", Len(data)), Extend(st, data))}
    ELSE {IF chk # "Ok" THEN Out(Ret(chk, 0), [r.st EXCEPT !.w = st.w]) ELSE r :
             r \in Direct(st, Req("write", <<data>>), Len(data))}

write(st, data) ==
    LET chk == check_available_space(st.w, Len(data)) IN
    IF chk # "Ok" THEN {Out(Ret(chk, 0), st)}
    ELSE IF st.w.buffered
    THEN {Out(Ret("Ok", Len(data)), Extend(st, data))}
    ELSE Direct(st, Req("write", <<data>>), Len(data))

\* bufs.iter().filter(|b| !b.is_empty())
RECURSIVE NonEmpty(_)
NonEmpty(ss) ==
    IF ss = <<>> THEN <<>>
    ELSE IF Head(ss) = <<>> THEN NonEmpty(Tail(ss))
    ELSE <<Head(ss)>> \o NonEmpty(Tail(ss))

\* The write_vectored that io::Write provides: only the first slice that is
\* not empty is written.
write_vectored_default(st, bufs) ==
    write(st, IF NonEmpty(bufs) = <<>> THEN <<>> ELSE Head(NonEmpty(bufs)))

write_vectored(st, bufs) ==
    LET total == Len(Flatten(bufs))
        chk == check_available_space(st.w, total)
    IN
    IF chk # "Ok" THEN {Out(Ret(chk, 0), st)}
    ELSE IF st.w.buffered
    THEN {Out(Ret("Ok", Len(Flatten(NonEmpty(bufs)))),
              Extend(st, Flatten(NonEmpty(bufs))))}
    ELSE IF NonEmpty(bufs) = <<>> THEN {Out(Ret("Ok", 0), st)}
    ELSE Direct(st, Req("writev", NonEmpty(bufs)), total)

\* io::Write::write_all, which write_obj calls: write until the buffer is
\* empty.  (write never fails with Interrupted, so its retry is not taken.)
RECURSIVE write_all(_, _)
write_all(st, buf) ==
    IF buf = <<>> THEN {Out(Ret("Ok", 0), st)}
    ELSE UNION {
        IF r.ret.kind # "Ok" THEN {r}
        ELSE IF r.ret.val = 0 THEN {Out(Ret("WriteZero", 0), r.st)}
        ELSE write_all(r.st, SubSeq(buf, r.ret.val + 1, Len(buf))) :
        r \in write(st, buf)}

write_obj(st, val) == write_all(st, val)

\* write_from and write_from_at: read into the free part of the region,
\* account, and in unbuffered mode pass &self.buf[..cnt] to the device.
write_from(st, count) ==
    LET chk == check_available_space(st.w, count) IN
    IF chk # "Ok" THEN {Out(Ret(chk, 0), st)}
    ELSE UNION {
        IF src.kind # "Ok" THEN {Out(Ret(src.kind, 0), [st EXCEPT !.src = TRUE])}
        ELSE LET cnt == Len(src.data)
                 m2 == Store(st.mem, st.w.ptr + st.w.len, src.data)
                 w2 == account_written(st.w, cnt)
             IN
             IF st.w.buffered
             THEN {Out(Ret("Ok", cnt),
                       [st EXCEPT !.mem = m2, !.w = w2, !.src = TRUE,
                                  !.g = Buffered(st.g, src.data)])}
             ELSE {Out(do_write(out),
                       [st EXCEPT !.mem = m2, !.w = w2, !.src = TRUE,
                           !.dev = Append(st.dev,
                               Req("write",
                                   <<SubSeq(m2, w2.ptr + 1, w2.ptr + cnt)>>))]) :
                      out \in DevOutcomes(cnt)} :
        src \in SrcOutcomes(count)}

\* ------------------------------------------------- Writer code, async-io
\* The driver calls AsyncUtil::write, write2 and write3 (crate::async_util):
\* handed n bytes for a descriptor, the driver answers with the count it
\* transferred or with an I/O error.
AsyncUtil(n) == {Ret("Ok", k) : k \in 0..n} \cup {Ret("Err", 0)}

\* The unbuffered path of async_write, async_write2 and async_write3: one
\* driver request, the cursor advanced by what was transferred, every failure
\* mapped to kind Other.
AsyncDirect(st, req, total) ==
    {Out(IF out.kind = "Ok" THEN out ELSE Ret("Other", 0),
         [st EXCEPT !.w = IF out.kind = "Ok"
                          THEN account_written(st.w, out.val) ELSE st.w,
                    !.dev = Append(st.dev, req)]) :
        out \in AsyncUtil(total)}

async_write(st, data) ==
    LET chk == check_available_space(st.w, Len(data)) IN
    IF chk # "Ok" THEN {Out(Ret(chk, 0), st)}
    ELSE IF st.w.buffered
    THEN {Out(Ret("Ok", Len(data)), Extend(st, data))}
    ELSE AsyncDirect(st, Req("write", <<data>>), Len(data))

async_write2(st, data, data2) ==
    LET len == Len(data) + Len(data2)
        chk == check_available_space(st.w, len)
    IN
    IF chk # "Ok" THEN {Out(Ret(chk, 0), st)}
    ELSE IF st.w.buffered
    THEN {Out(Ret("Ok", len), Extend(Extend(st, data), data2))}
    ELSE AsyncDirect(st, Req("write2", <<data, data2>>), len)

async_write3(st, data, data2, data3) ==
    LET len == Len(data) + Len(data2) + Len(data3)
        chk == check_available_space(st.w, len)
    IN
    IF chk # "Ok" THEN {Out(Ret(chk, 0), st)}
    ELSE IF st.w.buffered
    THEN {Out(Ret("Ok", len), Extend(Extend(Extend(st, data), data2), data3))}
    ELSE AsyncDirect(st, Req("write3", <<data, data2, data3>>), len)

\* async_write_all: async_write until the buffer is empty.  (async_write
\* never fails with Interrupted, so that arm is not taken.)
RECURSIVE async_write_all(_, _)
async_write_all(st, buf) ==
    IF buf = <<>> THEN {Out(Ret("Ok", 0), st)}
    ELSE UNION {
        IF r.ret.kind # "Ok" THEN {r}
        ELSE IF r.ret.val = 0 THEN {Out(Ret("WriteZero", 0), r.st)}
        ELSE async_write_all(r.st, SubSeq(buf, r.ret.val + 1, Len(buf))) :
        r \in async_write(st, buf)}

\* The driver request of async_commit, by the match on the two lengths.
AsyncCommitRequests(s, o) ==
    IF Len(s) = 0 /\ Len(o) = 0 THEN <<>>
    ELSE IF Len(s) = 0 THEN <<Req("write", <<o>>)>>
    ELSE IF Len(o) = 0 THEN <<Req("write", <<s>>)>>
    ELSE <<Req("write2", <<s, o>>)>>

\* async_commit(other): the match is made whatever the buffered flag says;
\* the driver's error is returned as it came, an OS error.
async_commit(w, o) ==
    IF AsyncCommitRequests(Content(w), o) = <<>>
    THEN {[ret |-> Ret("Ok", 0), dev |-> <<>>]}
    ELSE {[ret |-> IF out.kind = "Ok" THEN out ELSE Ret("OsError", 0),
           dev |-> AsyncCommitRequests(Content(w), o)] :
            out \in AsyncUtil(Len(Content(w)) + Len(o))}

\* --------------------------------- Writer code, async-io, by suspension
\* An async call runs to its next await or to its return: Polled is what it
\* leaves, with at = "done" when it returned and else the driver transfer
\* ("read", "write") it waits for and the n bytes that transfer was handed.
Polled(ret, st, at, n) == [ret |-> ret, st |-> st, at |-> at, n |-> n]

\* AsyncUtil::read (crate::async_util): the driver delivers up to count bytes
\* into the buffer, or fails with an I/O error.
AsyncUtilRead(count) ==
    {[kind |-> "Ok", data |-> Pattern(2, n)] : n \in 0..count}
    \cup {[kind |-> "Err", data |-> <<>>]}

\* async_write with the cursor advanced when the transfer is handed to the
\* driver, not when it completes.
async_write_poll_accounts_early(st, call, segs) ==
    LET len == Len(Flatten(segs))
        chk == check_available_space(st.w, len)
    IN
    IF chk # "Ok" THEN Polled(Ret(chk, 0), st, "done", 0)
    ELSE IF st.w.buffered
    THEN Polled(Ret("Ok", len), Extend(st, Flatten(segs)), "done", 0)
    ELSE Polled(Ret("pending", 0),
                [st EXCEPT !.w = account_written(st.w, len),
                           !.dev = Append(st.dev, Req(call, segs))],
                "write", len)

\* async_write, async_write2, async_write3 up to the await of the driver's
\* write (call) of the slices segs.
async_write_poll(st, call, segs) ==
    LET len == Len(Flatten(segs))
        chk == check_available_space(st.w, len)
    IN
    IF chk # "Ok" THEN Polled(Ret(chk, 0), st, "done", 0)
    ELSE IF st.w.buffered
    THEN Polled(Ret("Ok", len), Extend(st, Flatten(segs)), "done", 0)
    ELSE Polled(Ret("pending", 0),
                [st EXCEPT !.dev = Append(st.dev, Req(call, segs))],
                "write", len)

\* ... and from the driver's answer on: .map(account_written), .map_err.
async_write_wake(st, out) ==
    IF out.kind = "Ok"
    THEN Polled(out, [st EXCEPT !.w = account_written(st.w, out.val)],
                "done", 0)
    ELSE Polled(Ret("Other", 0), st, "done", 0)

\* async_write_from_at up to the await of the driver's read.
async_write_from_at_poll(st, count) ==
    LET chk == check_available_space(st.w, count) IN
    IF chk # "Ok" THEN Polled(Ret(chk, 0), st, "done", 0)
    ELSE Polled(Ret("pending", 0), [st EXCEPT !.src = TRUE], "read", count)

\* ... from the answer to the read up to the await of the driver's write of
\* &self.buf[..cnt], or to the return in buffered mode.
async_write_from_at_read(st, src) ==
    IF src.kind # "Ok" THEN Polled(Ret("OsError", 0), st, "done", 0)
    ELSE LET cnt == Len(src.data)
             m2 == Store(st.mem, st.w.ptr + st.w.len, src.data)
             w2 == account_written(st.w, cnt)
         IN
         IF st.w.buffered
         THEN Polled(Ret("Ok", cnt),
                     [st EXCEPT !.mem = m2, !.w = w2,
                                !.g = Buffered(st.g, src.data)],
                     "done", 0)
         ELSE Polled(Ret("pending", 0),
                     [st EXCEPT !.mem = m2, !.w = w2,
                         !.dev = Append(st.dev,
                             Req("write",
                                 <<SubSeq(m2, w2.ptr + 1, w2.ptr + cnt)>>))],
                     "write", cnt)

\* ... and from the answer to the write on: the driver's result as it came.
async_write_from_at_wake(st, out) ==
    Polled(IF out.kind = "Ok" THEN out ELSE Ret("OsError", 0), st, "done", 0)

\* async_commit up to the await of the driver's write.
async_commit_poll(st, o) ==
    LET reqs == AsyncCommitRequests(Slice(st.mem, st.w), o) IN
    IF reqs = <<>> THEN Polled(Ret("Ok", 0), st, "done", 0)
    ELSE Polled(Ret("pending", 0), [st EXCEPT !.dev = st.dev \o reqs],
                "write", Len(Slice(st.mem, st.w)) + Len(o))

\* ... and from the driver's answer on.
async_commit_wake(st, out) ==
    Polled(IF out.kind = "Ok" THEN out ELSE Ret("OsError", 0), st, "done", 0)

\* The match of async_write_all without its arm for Ok(0).
async_write_all_turn_no_zero_arm(buf, r) ==
    IF r.ret.kind # "Ok" THEN [ret |-> r.ret, buf |-> buf]
    ELSE IF r.ret.val = Len(buf) THEN [ret |-> Ret("Ok", 0), buf |-> <<>>]
    ELSE [ret |-> Ret("pending", 0),
          buf |-> SubSeq(buf, r.ret.val + 1, Len(buf))]

\* One turn of the loop of async_write_all on the result r of
\* async_write(buf): the result of the call (pending when the loop goes on)
\* and the buffer left.
async_write_all_turn(buf, r) ==
    IF r.ret.kind # "Ok" THEN [ret |-> r.ret, buf |-> buf]
    ELSE IF r.ret.val = 0 THEN [ret |-> Ret("WriteZero", 0), buf |-> buf]
    ELSE IF r.ret.val = Len(buf) THEN [ret |-> Ret("Ok", 0), buf |-> <<>>]
    ELSE [ret |-> Ret("pending", 0),
          buf |-> SubSeq(buf, r.ret.val + 1, Len(buf))]

\* ------------------------------------------------------------- Reader code
\* Reader::new: one region, the whole request buffer, nothing consumed.
NewReader(buf) == [buffers |-> <<buf>>, bytes_consumed |-> 0]

\* IoBuffers (crate::transport): the bytes left in the regions, the bytes
\* consumed so far.
reader_available_bytes(r) == Len(Flatten(r.buffers))

bytes_read(r) == r.bytes_consumed

\* IoBuffers::allocate_io_slice: the slices that cover the next count bytes
\* left, one per region that holds some of them; none when there is nothing
\* to transfer.
RECURSIVE allocate_io_slice(_, _)
allocate_io_slice(buffers, count) ==
    IF buffers = <<>> \/ count = 0 THEN <<>>
    ELSE IF Head(buffers) = <<>> THEN allocate_io_slice(Tail(buffers), count)
    ELSE LET n == Min(count, Len(Head(buffers))) IN
         <<SubSeq(Head(buffers), 1, n)>>
             \o allocate_io_slice(Tail(buffers), count - n)

\* The regions with their first n bytes dropped.
RECURSIVE Advance(_, _)
Advance(buffers, n) ==
    IF buffers = <<>> THEN <<>>
    ELSE IF n < Len(Head(buffers))
    THEN <<SubSeq(Head(buffers), n + 1, Len(Head(buffers)))>> \o Tail(buffers)
    ELSE Advance(Tail(buffers), n - Len(Head(buffers)))

\* IoBuffers::mark_used: n more bytes are consumed.
mark_used(r, n) ==
    [buffers |-> Advance(r.buffers, n), bytes_consumed |-> r.bytes_consumed + n]

\* An async_read_to_at that marks the requested count as used, not the count
\* the driver reports.
async_read_to_at_marks_count(r, count) ==
    LET bufs == allocate_io_slice(r.buffers, count) IN
    IF bufs = <<>> THEN {[ret |-> Ret("Ok", 0), r |-> r, dev |-> <<>>]}
    ELSE IF Len(bufs) = 1
    THEN {[ret |-> IF out.kind = "Ok" THEN out ELSE Ret("OsError", 0),
           r |-> IF out.kind = "Ok" THEN mark_used(r, Len(bufs[1])) ELSE r,
           dev |-> <<Req("write", bufs)>>] :
            out \in AsyncUtil(Len(bufs[1]))}
    ELSE {[ret |-> Ret("panic", 0), r |-> r, dev |-> <<>>]}

\* async_read_to_at(drive, dst, count, off): the outcomes [ret, r, dev]; the
\* driver's error is returned as it came.
async_read_to_at(r, count) ==
    LET bufs == allocate_io_slice(r.buffers, count) IN
    IF bufs = <<>> THEN {[ret |-> Ret("Ok", 0), r |-> r, dev |-> <<>>]}
    ELSE IF Len(bufs) = 1
    THEN {[ret |-> IF out.kind = "Ok" THEN out ELSE Ret("OsError", 0),
           r |-> IF out.kind = "Ok" THEN mark_used(r, out.val) ELSE r,
           dev |-> <<Req("write", bufs)>>] :
            out \in AsyncUtil(Len(bufs[1]))}
    ELSE {[ret |-> Ret("panic", 0), r |-> r, dev |-> <<>>]}

\* ----------------------------------------------------------------- actions
NextFd == Len(sent) + 1

Running == pc.op = "idle" /\ last.ret.kind # "panic"

\* Room for one more writer: the writers plus the messages after the first
\* stay within MaxWriters.
Room(messages) == Len(writers) + 1 + (messages - 1) <= MaxWriters

\* A call on writer id ended (or, with pc2 not idle, goes on) with outcome r.
Apply(op, id, req, r, pc2) ==
    /\ mem' = r.st.mem
    /\ writers' = [writers EXCEPT ![id] = r.st.w]
    /\ ghost' = [ghost EXCEPT ![id] = r.st.g]
    /\ sent' = IF r.st.dev = <<>> THEN sent
               ELSE [sent EXCEPT ![writers[id].fd] = TRUE]
    /\ pc' = pc2
    /\ UNCHANGED readers
    /\ last' = [Call(op, id, 0, req, r.ret, r.st.dev, PreOf(writers[id]),
                     \/ Len(r.st.dev) >= 2
                     \/ r.st.dev # <<>> /\ sent[writers[id].fd])
                   EXCEPT !.read = r.st.src]

New(cap) ==
    /\ Running
    /\ Room(NextFd)
    /\ mem' = mem \o Zeros(cap)
    /\ writers' = Append(writers, NewWriter(NextFd, Len(mem), cap))
    /\ ghost' = Append(ghost, NewGhost)
    /\ sent' = Append(sent, FALSE)
    /\ last' = Call("new", Len(writers) + 1, 0, cap, Ret("Ok", 0), <<>>,
                    NoPre, FALSE)
    /\ UNCHANGED <<pc, readers>>

\* The bounds check as the comment on split_at words it.
SplitFailsOnAvailable(w, offset) == available_bytes(w) < offset

\* split_at's bounds check.
SplitFails(w, offset) == w.cap < offset

\* The lengths with the bytes behind the offset dropped.
SplitLensDropSuffix(w, offset) == <<Min(w.len, offset), 0>>

\* (len1, len2) of the two halves.
SplitLens(w, offset) ==
    IF w.len > offset THEN <<offset, w.len - offset>> ELSE <<w.len, 0>>

\* The receiver left in the mode it was in.
SplitPrefixKeepsMode(w, offset) ==
    [w EXCEPT !.len = SplitLens(w, offset)[1], !.cap = offset]

SplitPrefix(w, offset) ==
    [w EXCEPT !.len = SplitLens(w, offset)[1], !.cap = offset,
              !.buffered = TRUE]

\* The returned writer left unbuffered, as Writer::new makes one.
SplitSuffixUnbuffered(w, offset) ==
    [fd |-> w.fd, ptr |-> w.ptr + offset, len |-> SplitLens(w, offset)[2],
     cap |-> w.cap - offset, buffered |-> FALSE]

\* The returned writer placed at the start of the region, not at the offset.
SplitSuffixAtStart(w, offset) ==
    [fd |-> w.fd, ptr |-> w.ptr, len |-> SplitLens(w, offset)[2],
     cap |-> w.cap - offset, buffered |-> TRUE]

SplitSuffix(w, offset) ==
    [fd |-> w.fd, ptr |-> w.ptr + offset, len |-> SplitLens(w, offset)[2],
     cap |-> w.cap - offset, buffered |-> TRUE]

SplitAt(id, offset) ==
    LET w == writers[id] IN
    /\ Running
    /\ IF SplitFails(w, offset)
       THEN /\ last' = Call("split_at", id, 0, offset,
                            Ret("SplitOutOfBounds", offset), <<>>, PreOf(w),
                            FALSE)
            /\ UNCHANGED <<mem, writers, ghost, sent, pc, readers>>
       ELSE LET p == SplitPrefix(w, offset)
                s == SplitSuffix(w, offset)
            IN
            /\ Room(Len(sent))
            /\ writers' = Append([writers EXCEPT ![id] = p], s)
            /\ ghost' = Append(
                 [ghost EXCEPT ![id] =
                    [calls |-> ghost[id].calls, exp |-> Slice(mem, p)]],
                 [calls |-> <<>>, exp |-> Slice(mem, s)])
            /\ last' = Call("split_at", id, Len(writers) + 1, offset,
                            Ret("Ok", 0), <<>>, PreOf(w), FALSE)
            /\ UNCHANGED <<mem, sent, pc, readers>>

Write(id, data) ==
    /\ Running
    /\ \E r \in write(View(id), data) : Apply("write", id, Len(data), r, pc)

WriteVectored(id, bufs) ==
    /\ Running
    /\ \E r \in write_vectored(View(id), bufs) :
         Apply("write_vectored", id, Len(Flatten(bufs)), r, pc)

WriteObj(id, val) ==
    /\ Running
    /\ \E r \in write_obj(View(id), val) :
         Apply("write_obj", id, Len(val), r, pc)

WriteFrom(id, count) ==
    /\ Running
    /\ \E r \in write_from(View(id), count) :
         Apply("write_from", id, count, r, pc)

WriteFromAt(id, count) ==
    /\ Running
    /\ \E r \in write_from(View(id), count) :
         Apply("write_from_at", id, count, r, pc)

\* write_all_from: the capacity check, then the loop, entered when count > 0.
WriteAllFrom(id, count) ==
    LET chk == check_available_space(writers[id], count) IN
    /\ Running
    /\ Apply("write_all_from", id, count,
             Out(IF chk # "Ok" THEN Ret(chk, 0)
                 ELSE IF count > 0 THEN Ret("pending", 0) ELSE Ret("Ok", 0),
                 View(id)),
             IF chk = "Ok" /\ count > 0
             THEN [op |-> "write_all_from", w |-> id, count |-> count]
             ELSE pc)

\* One turn of the loop of write_all_from: write_from(src, count), then the
\* match on its result.
WriteAllFromStep ==
    /\ pc.op = "write_all_from"
    /\ \E r \in write_from(View(pc.w), pc.count) :
         LET left == pc.count - r.ret.val
             ret == IF r.ret.kind = "Ok" /\ r.ret.val = 0
                    THEN Ret("WriteZero", 0)
                    ELSE IF r.ret.kind = "Ok" /\ left = 0 THEN Ret("Ok", 0)
                    ELSE IF r.ret.kind = "Ok" THEN Ret("pending", 0)
                    ELSE IF r.ret.kind = "Interrupted" THEN Ret("retry", 0)
                    ELSE r.ret
             id == pc.w
         IN
         /\ mem' = r.st.mem
         /\ writers' = [writers EXCEPT ![id] = r.st.w]
         /\ ghost' = [ghost EXCEPT ![id] = r.st.g]
         /\ sent' = IF r.st.dev = <<>> THEN sent
                    ELSE [sent EXCEPT ![writers[id].fd] = TRUE]
         /\ UNCHANGED readers
         /\ pc' = IF ret.kind \notin {"pending", "retry"} THEN Idle
                  ELSE [pc EXCEPT !.count =
                           IF r.ret.kind = "Ok" THEN left ELSE pc.count]
         /\ last' = [last EXCEPT
                       !.ret = ret,
                       !.dev = last.dev \o r.st.dev,
                       !.read = last.read \/ r.st.src,
                       !.again = \/ last.again
                                 \/ Len(last.dev \o r.st.dev) >= 2
                                 \/ r.st.dev # <<>> /\ sent[writers[id].fd]]

\* commit without the arm for two empty buffers.
CommitRequestsNoEmptyArm(s, o) ==
    IF Len(s) = 0 THEN <<Req("write", <<o>>)>>
    ELSE IF Len(o) = 0 THEN <<Req("write", <<s>>)>>
    ELSE <<Req("writev", <<s, o>>)>>

\* commit with the two buffers in the wrong order.
CommitRequestsSwapped(s, o) ==
    IF Len(s) = 0 /\ Len(o) = 0 THEN <<>>
    ELSE IF Len(s) = 0 THEN <<Req("write", <<o>>)>>
    ELSE IF Len(o) = 0 THEN <<Req("write", <<s>>)>>
    ELSE <<Req("writev", <<o, s>>)>>

\* The device request of commit: none when both buffers are empty, a write of
\* the one that holds bytes, a writev of self's then other's when both do.
CommitRequests(s, o) ==
    IF Len(s) = 0 /\ Len(o) = 0 THEN <<>>
    ELSE IF Len(s) = 0 THEN <<Req("write", <<o>>)>>
    ELSE IF Len(o) = 0 THEN <<Req("write", <<s>>)>>
    ELSE <<Req("writev", <<s, o>>)>>

\* commit without its early return.
CommitNeverSkips(w) == FALSE

\* commit's early return for a writer that is not buffered.
CommitSkips(w) == ~w.buffered

\* commit(other); other = 0 stands for None.  The device's error is returned
\* as an OS error.
commit(w, o) ==
    IF CommitSkips(w) \/ CommitRequests(Content(w), o) = <<>>
    THEN {[ret |-> Ret("Ok", 0), dev |-> <<>>]}
    ELSE {[ret |-> IF out.kind = "Ok" THEN out ELSE Ret("OsError", 0),
           dev |-> CommitRequests(Content(w), o)] :
            out \in DevOutcomes(Len(Content(w)) + Len(o))}

\* A commit that empties the writer's buffer once it has written it.
CommitClears(id, other) ==
    LET w == writers[id]
        o == IF other = 0 THEN <<>> ELSE Content(writers[other])
    IN
    /\ Running
    /\ other # id
    /\ \E c \in commit(w, o) :
         /\ last' = Call("commit", id, other, 0, c.ret, c.dev, PreOf(w),
                         c.dev # <<>> /\ sent[w.fd])
         /\ sent' = IF c.dev = <<>> THEN sent ELSE [sent EXCEPT ![w.fd] = TRUE]
         /\ writers' = IF c.dev = <<>> THEN writers
                       ELSE [writers EXCEPT ![id].len = 0]
    /\ UNCHANGED <<mem, ghost, pc, readers>>

Commit(id, other) ==
    LET w == writers[id]
        o == IF other = 0 THEN <<>> ELSE Content(writers[other])
    IN
    /\ Running
    /\ other # id
    /\ \E c \in commit(w, o) :
         /\ last' = Call("commit", id, other, 0, c.ret, c.dev, PreOf(w),
                         c.dev # <<>> /\ sent[w.fd])
         /\ sent' = IF c.dev = <<>> THEN sent ELSE [sent EXCEPT ![w.fd] = TRUE]
    /\ UNCHANGED <<mem, writers, ghost, pc, readers>>

\* A flush that commits the writer's own buffer.
flush_commits(w) == commit(w, <<>>)

\* flush is refused and does nothing: the error, and no device request.
flush(w) == {[ret |-> Ret("Other", 0), dev |-> <<>>]}

Flush(id) ==
    LET w == writers[id] IN
    /\ Running
    /\ \E c \in flush(w) :
         /\ last' = Call("flush", id, 0, 0, c.ret, c.dev, PreOf(w),
                         c.dev # <<>> /\ sent[w.fd])
         /\ sent' = IF c.dev = <<>> THEN sent ELSE [sent EXCEPT ![w.fd] = TRUE]
    /\ UNCHANGED <<mem, writers, ghost, pc, readers>>

Free(id) == available_bytes(writers[id])

\* Arguments of async_write2: a payload cut into two slices.
PairArgs(free) ==
    {<<SubSeq(Pattern(1, t[1]), 1, t[2]),
       SubSeq(Pattern(1, t[1]), t[2] + 1, t[1])>> :
        t \in {u \in Lengths(free) \X Lengths(free) : u[2] <= u[1]}}

AsyncWrite(id, data) ==
    /\ Running
    /\ \E r \in async_write(View(id), data) :
         Apply("async_write", id, Len(data), r, pc)

AsyncWrite2(id, bufs) ==
    /\ Running
    /\ \E r \in async_write2(View(id), bufs[1], bufs[2]) :
         Apply("async_write2", id, Len(Flatten(bufs)), r, pc)

AsyncWrite3(id, bufs) ==
    /\ Running
    /\ \E r \in async_write3(View(id), bufs[1], bufs[2], bufs[3]) :
         Apply("async_write3", id, Len(Flatten(bufs)), r, pc)

AsyncWriteAll(id, buf) ==
    /\ Running
    /\ \E r \in async_write_all(View(id), buf) :
         Apply("async_write_all", id, Len(buf), r, pc)

AsyncCommit(id, other) ==
    LET w == writers[id]
        o == IF other = 0 THEN <<>> ELSE Content(writers[other])
    IN
    /\ Running
    /\ other # id
    /\ \E c \in async_commit(w, o) :
         /\ last' = Call("async_commit", id, other, 0, c.ret, c.dev, PreOf(w),
                         c.dev # <<>> /\ sent[w.fd])
         /\ sent' = IF c.dev = <<>> THEN sent ELSE [sent EXCEPT ![w.fd] = TRUE]
    /\ UNCHANGED <<mem, writers, ghost, pc, readers>>

Init ==
    /\ mem = <<>>
    /\ writers = <<>>
    /\ ghost = <<>>
    /\ sent = <<>>
    /\ pc = Idle
    /\ readers = <<>>
    /\ last = Call("none", 0, 0, 0, Ret("Ok", 0), <<>>, NoPre, FALSE)

Next ==
    \/ \E cap \in 0..MaxCap : New(cap)
    \/ \E id \in Ids : \E offset \in 0..(writers[id].cap + 1) : SplitAt(id, offset)
    \/ \E id \in Ids : \E data \in DataArgs(Free(id)) : Write(id, data)
    \/ \E id \in Ids : \E bufs \in SliceArgs(Free(id)) : WriteVectored(id, bufs)
    \/ \E id \in Ids : \E val \in DataArgs(Free(id)) : WriteObj(id, val)
    \/ \E id \in Ids : \E count \in Lengths(Free(id)) : WriteFrom(id, count)
    \/ \E id \in Ids : \E count \in Lengths(Free(id)) : WriteFromAt(id, count)
    \/ \E id \in Ids : \E count \in Lengths(Free(id)) : WriteAllFrom(id, count)
    \/ WriteAllFromStep
    \/ \E id \in Ids : \E other \in {0} \cup Ids : Commit(id, other)
    \/ \E id \in Ids : Flush(id)

\* Reader::new over a request buffer.
ReaderNew(buf) ==
    /\ Running
    /\ Len(readers) < MaxReaders
    /\ readers' = Append(readers, NewReader(buf))
    /\ last' = Call("reader_new", Len(readers) + 1, 0, Len(buf), Ret("Ok", 0),
                    <<>>, NewReader(<<>>), FALSE)
    /\ UNCHANGED <<mem, writers, ghost, sent, pc>>

AsyncReadToAt(id, count) ==
    /\ Running
    /\ \E c \in async_read_to_at(readers[id], count) :
         /\ readers' = [readers EXCEPT ![id] = c.r]
         /\ last' = Call("async_read_to_at", id, 0, count, c.ret, c.dev,
                         readers[id], FALSE)
    /\ UNCHANGED <<mem, writers, ghost, sent, pc>>

\* The operations of the async-io feature next to the synchronous ones.
NextAsync ==
    \/ Next
    \/ \E id \in Ids : \E data \in DataArgs(Free(id)) : AsyncWrite(id, data)
    \/ \E id \in Ids : \E bufs \in PairArgs(Free(id)) : AsyncWrite2(id, bufs)
    \/ \E id \in Ids : \E bufs \in SliceArgs(Free(id)) : AsyncWrite3(id, bufs)
    \/ \E id \in Ids : \E buf \in DataArgs(Free(id)) : AsyncWriteAll(id, buf)
    \/ \E id \in Ids : \E other \in {0} \cup Ids : AsyncCommit(id, other)

\* The construction of readers and writers and the reads of a request.
NextReader ==
    \/ \E cap \in 0..MaxCap : New(cap)
    \/ \E n \in 0..MaxCap : ReaderNew(Pattern(1, n))
    \/ \E id \in 1..Len(readers) :
         \E count \in 0..(reader_available_bytes(readers[id]) + 1) :
             AsyncReadToAt(id, count)

\* ----------------------------------------------- async calls as tasks
\* The async calls that wait for the driver and can be dropped while waiting.
TaskOps ==
    {"async_write", "async_write2", "async_write3", "async_write_from_at",
     "async_commit"}

\* An async call on writer id was polled for the first time and left r: it
\* returned, or it waits for the transfer r.at of r.n bytes.  got counts the
\* bytes reported by the transfers of the call that have completed.
Started(op, id, other, req, r) ==
    /\ mem' = r.st.mem
    /\ writers' = [writers EXCEPT ![id] = r.st.w]
    /\ ghost' = [ghost EXCEPT ![id] = r.st.g]
    /\ sent' = IF r.st.dev = <<>> THEN sent
               ELSE [sent EXCEPT ![writers[id].fd] = TRUE]
    /\ pc' = IF r.at = "done" THEN Idle
             ELSE [op |-> op, w |-> id, count |-> r.n, at |-> r.at, got |-> 0]
    /\ UNCHANGED readers
    /\ last' = [Call(op, id, other, req, r.ret, r.st.dev, PreOf(writers[id]),
                     r.st.dev # <<>> /\ sent[writers[id].fd])
                   EXCEPT !.read = r.st.src]

AsyncWriteStart(id, data) ==
    /\ Running
    /\ Started("async_write", id, 0, Len(data),
               async_write_poll(View(id), "write", <<data>>))

AsyncWrite2Start(id, bufs) ==
    /\ Running
    /\ Started("async_write2", id, 0, Len(Flatten(bufs)),
               async_write_poll(View(id), "write2", bufs))

AsyncWrite3Start(id, bufs) ==
    /\ Running
    /\ Started("async_write3", id, 0, Len(Flatten(bufs)),
               async_write_poll(View(id), "write3", bufs))

AsyncWriteFromAtStart(id, count) ==
    /\ Running
    /\ Started("async_write_from_at", id, 0, count,
               async_write_from_at_poll(View(id), count))

AsyncCommitStart(id, other) ==
    /\ Running
    /\ other # id
    /\ Started("async_commit", id, other, 0,
               async_commit_poll(View(id),
                   IF other = 0 THEN <<>> ELSE Content(writers[other])))

\* The waiting call goes on from the driver's answer, which reported n bytes.
Woken(r, n) ==
    LET id == pc.w IN
    /\ mem' = r.st.mem
    /\ writers' = [writers EXCEPT ![id] = r.st.w]
    /\ ghost' = [ghost EXCEPT ![id] = r.st.g]
    /\ sent' = IF r.st.dev = <<>> THEN sent
               ELSE [sent EXCEPT ![writers[id].fd] = TRUE]
    /\ pc' = IF r.at = "done" THEN Idle
             ELSE [pc EXCEPT !.at = r.at, !.count = r.n, !.got = pc.got + n]
    /\ UNCHANGED readers
    /\ last' = [last EXCEPT
                  !.ret = r.ret,
                  !.dev = last.dev \o r.st.dev,
                  !.again = \/ last.again
                            \/ r.st.dev # <<>> /\ sent[writers[id].fd]]

\* The driver completes the transfer the suspended call waits for.
Wake ==
    /\ pc.op \in TaskOps
    /\ IF pc.at = "read"
       THEN \E src \in AsyncUtilRead(pc.count) :
                Woken(async_write_from_at_read(View(pc.w), src), Len(src.data))
       ELSE \E out \in AsyncUtil(pc.count) :
                Woken(CASE pc.op = "async_write_from_at" ->
                               async_write_from_at_wake(View(pc.w), out)
                        [] pc.op = "async_commit" ->
                               async_commit_wake(View(pc.w), out)
                        [] OTHER -> async_write_wake(View(pc.w), out),
                      out.val)

\* The task that runs the suspended call is dropped: the call never goes on.
Cancel ==
    /\ pc.op \in TaskOps
    /\ pc' = Idle
    /\ last' = [last EXCEPT !.ret = Ret("cancelled", pc.got)]
    /\ UNCHANGED <<mem, writers, ghost, sent, readers>>

\* async_write_all: the call enters its loop unless the buffer is empty.
AsyncWriteAllStart(id, buf) ==
    /\ Running
    /\ Apply("async_write_all", id, Len(buf),
             Out(IF buf = <<>> THEN Ret("Ok", 0) ELSE Ret("pending", 0),
                 View(id)),
             IF buf = <<>> THEN pc
             ELSE [op |-> "async_write_all", w |-> id, count |-> Len(buf),
                   buf |-> buf])

\* One turn of the loop of async_write_all: async_write(drive, buf), then the
\* match on its result.
AsyncWriteAllStep ==
    /\ pc.op = "async_write_all"
    /\ \E r \in async_write(View(pc.w), pc.buf) :
         LET t == async_write_all_turn(pc.buf, r)
             id == pc.w
         IN
         /\ mem' = r.st.mem
         /\ writers' = [writers EXCEPT ![id] = r.st.w]
         /\ ghost' = [ghost EXCEPT ![id] = r.st.g]
         /\ sent' = IF r.st.dev = <<>> THEN sent
                    ELSE [sent EXCEPT ![writers[id].fd] = TRUE]
         /\ UNCHANGED readers
         /\ pc' = IF t.ret.kind # "pending" THEN Idle
                  ELSE [pc EXCEPT !.buf = t.buf, !.count = Len(t.buf)]
         /\ last' = [last EXCEPT
                       !.ret = t.ret,
                       !.dev = last.dev \o r.st.dev,
                       !.again = \/ last.again
                                 \/ Len(last.dev \o r.st.dev) >= 2
                                 \/ r.st.dev # <<>> /\ sent[writers[id].fd]]

\* The writers with the loops of write_all_from and async_write_all turn by
\* turn, and the async calls from await to await.
NextTasks ==
    \/ \E cap \in 0..MaxCap : New(cap)
    \/ \E id \in Ids : \E offset \in 0..(writers[id].cap + 1) : SplitAt(id, offset)
    \/ \E id \in Ids : \E count \in Lengths(Free(id)) : WriteAllFrom(id, count)
    \/ WriteAllFromStep
    \/ \E id \in Ids : \E buf \in DataArgs(Free(id)) : AsyncWriteAllStart(id, buf)
    \/ AsyncWriteAllStep
    \/ \E id \in Ids : \E data \in DataArgs(Free(id)) : AsyncWriteStart(id, data)
    \/ \E id \in Ids : \E bufs \in PairArgs(Free(id)) : AsyncWrite2Start(id, bufs)
    \/ \E id \in Ids : \E bufs \in SliceArgs(Free(id)) : AsyncWrite3Start(id, bufs)
    \/ \E id \in Ids : \E count \in Lengths(Free(id)) :
         AsyncWriteFromAtStart(id, count)
    \/ \E id \in Ids : \E other \in {0} \cup Ids : AsyncCommitStart(id, other)
    \/ Wake
    \/ Cancel

\* ------------------------------------------------------------- properties
WriteOps ==
    {"write", "write_vectored", "write_obj", "write_from", "write_from_at",
     "write_all_from"}

\* The last call has returned (or aborted).
Returned == last.ret.kind \notin {"pending", "retry"}

Ok == last.ret.kind = "Ok"

\* The receiver of the last call, and its `other` argument.
Self == writers[last.w]
Other == writers[last.other]

PreFree == last.pre.cap - last.pre.len

C2_WrittenWithinCapacity ==
    /\ \A id \in Ids :
         /\ bytes_written(writers[id]) >= 0
         /\ bytes_written(writers[id]) <= writers[id].cap
         /\ available_bytes(writers[id]) >= 0
         /\ bytes_written(writers[id]) + available_bytes(writers[id])
              = writers[id].cap
    /\ last.op \in WriteOps \cup {"commit", "flush"} => Self.cap = last.pre.cap

\* A writer filled to its capacity by a short transfer and a further write,
\* then refused one more byte.
C2_Witness ==
    /\ last.op \in WriteOps
    /\ last.ret.kind = "InvalidData"
    /\ Self.cap = MaxCap
    /\ bytes_written(Self) = Self.cap
    /\ available_bytes(Self) = 0

C5_SplitAgainstAvailable ==
    last.op = "split_at" =>
        /\ last.req > PreFree => last.ret.kind = "SplitOutOfBounds"
        /\ Ok => /\ available_bytes(Self) = last.req
                 /\ available_bytes(Other) = PreFree - last.req

\* C6: commit on a writer that is not buffered returns Ok(0), issues no
\* device write and leaves the writer as it was, whatever `other` is and
\* whatever its own bytes_written.
C6_CommitUnbufferedNoOp ==
    last.op = "commit" /\ ~last.pre.buffered =>
        /\ last.ret = Ret("Ok", 0)
        /\ last.dev = <<>>
        /\ ~last.again
        /\ Self = last.pre

\* commit(Some(other)) on an unbuffered writer, both with bytes accounted.
C6_Witness ==
    /\ last.op = "commit"
    /\ ~last.pre.buffered
    /\ bytes_written(Self) > 0
    /\ last.other # 0
    /\ bytes_written(Other) > 0

OtherLen == IF last.other = 0 THEN 0 ELSE bytes_written(Other)

\* C7 as stated: every commit on a buffered writer issues exactly one device
\* write, also when neither writer has accumulated bytes.
C7_CommitAlwaysWrites ==
    last.op = "commit" /\ last.pre.buffered => Len(last.dev) = 1

\* C7 amended: a commit on a buffered writer issues exactly one device write
\* when self or other has accumulated bytes, and none, returning Ok(0), when
\* neither has.
C7_CommitWritesOnceUnlessEmpty ==
    last.op = "commit" /\ last.pre.buffered =>
        /\ bytes_written(Self) + OtherLen > 0 => Len(last.dev) = 1
        /\ bytes_written(Self) + OtherLen = 0 =>
             last.dev = <<>> /\ last.ret = Ret("Ok", 0)

\* commit(Some(other)) with nothing accumulated on either side.
C7_Witness ==
    /\ last.op = "commit"
    /\ last.pre.buffered
    /\ last.other # 0
    /\ bytes_written(Self) + OtherLen = 0
    /\ last.dev = <<>>

\* C8 as stated: commit(None) on a buffered writer with n > 0 bytes written
\* hands the device one single-buffer write of n bytes, the concatenation in
\* call order of the data of all successful buffered writes made on it.
C8_CommitWritesAllCalls ==
    last.op = "commit" /\ last.other = 0 /\ last.pre.buffered
        /\ last.pre.len > 0 =>
        /\ last.dev = <<Req("write", <<ghost[last.w].calls>>)>>
        /\ Len(ghost[last.w].calls) = last.pre.len

\* C8 amended: commit(None) on a buffered writer with n > 0 bytes written
\* hands the device one single-buffer write of exactly n bytes: the bytes the
\* writer held when it last took part in a split_at, followed by the data of
\* its successful buffered writes since, in call order.
C8_CommitWritesHeldBytes ==
    last.op = "commit" /\ last.other = 0 /\ last.pre.buffered
        /\ last.pre.len > 0 =>
        /\ last.dev = <<Req("write", <<ghost[last.w].exp>>)>>
        /\ Len(ghost[last.w].exp) = last.pre.len

\* commit(None) of a writer that kept one of the two bytes written to it
\* before a split and wrote nothing after.
C8_Witness ==
    /\ last.op = "commit"
    /\ last.other = 0
    /\ last.pre.buffered
    /\ last.pre.len > 0
    /\ Len(ghost[last.w].calls) > last.pre.len
    /\ last.dev = <<Req("write", <<ghost[last.w].exp>>)>>

\* C9: commit(Some(sibling)) on a buffered writer issues one writev of self's
\* accumulated bytes then the sibling's when both have bytes, one write of
\* the sibling's when only it has, one write of self's when only self has.
C9_CommitWithSibling ==
    last.op = "commit" /\ last.pre.buffered /\ last.other # 0
        /\ Other.buffered =>
        LET s == ghost[last.w].exp
            o == ghost[last.other].exp
        IN
        /\ s # <<>> /\ o # <<>> => last.dev = <<Req("writev", <<s, o>>)>>
        /\ s = <<>> /\ o # <<>> => last.dev = <<Req("write", <<o>>)>>
        /\ s # <<>> /\ o = <<>> => last.dev = <<Req("write", <<s>>)>>

\* A vectored commit of two different payloads.
C9_Witness ==
    /\ last.op = "commit"
    /\ last.pre.buffered
    /\ last.other # 0
    /\ Other.buffered
    /\ Len(last.dev) = 1
    /\ last.dev[1].call = "writev"
    /\ Len(last.dev[1].segs) = 2
    /\ last.dev[1].segs[1] # last.dev[1].segs[2]
    /\ last.dev[1].segs[1] = ghost[last.w].calls

\* C10 as stated: in every reachable writer state a write call that requests
\* more than available_bytes() returns the error InvalidData and leaves
\* bytes_written and available_bytes unchanged.
C10_OverflowIsInvalidData ==
    last.op \in WriteOps /\ last.req > PreFree =>
        /\ last.ret.kind = "InvalidData"
        /\ bytes_written(Self) = last.pre.len
        /\ available_bytes(Self) = PreFree

AsyncWriteOps ==
    {"async_write", "async_write2", "async_write3", "async_write_all"}

\* C11: a write call (synchronous or async) that asks for more than
\* available_bytes(), or that returns InvalidData, has issued no device write
\* and no read from its source and has left the writer as it was; a failing
\* split_at has issued no I/O either.
C11_CheckBeforeIO ==
    /\ last.op \in WriteOps \cup AsyncWriteOps
         /\ (last.req > PreFree \/ last.ret.kind = "InvalidData") =>
         /\ last.dev = <<>>
         /\ ~last.read
         /\ ~last.again
         /\ Self = last.pre
    /\ last.op = "split_at" /\ ~Ok =>
         /\ last.dev = <<>>
         /\ ~last.read

\* An async_write2 of one byte too many on a fresh, unbuffered writer.
C11_Witness ==
    /\ last.op = "async_write2"
    /\ ~last.pre.buffered
    /\ last.pre.cap > 0
    /\ last.req = PreFree + 1
    /\ last.ret.kind = "InvalidData"
    /\ last.dev = <<>>

\* C12: on a buffered writer, write, write_vectored and write_obj of n <=
\* available_bytes() bytes succeed (with count n), advance bytes_written by n,
\* store the bytes in argument order behind those already held and issue no
\* device write; on a buffered writer only commit issues device writes.
C12_BufferedWriteAppends ==
    /\ last.op \in {"write", "write_vectored", "write_obj"}
         /\ last.pre.buffered /\ last.req <= PreFree =>
         /\ Ok
         /\ last.op # "write_obj" => last.ret.val = last.req
         /\ bytes_written(Self) = last.pre.len + last.req
         /\ available_bytes(Self) = PreFree - last.req
         /\ SubSeq(mem, Self.ptr + last.pre.len + 1, Self.ptr + Self.len)
              = Pattern(1, last.req)
         /\ Content(Self) = ghost[last.w].exp
         /\ last.dev = <<>>
         /\ ~last.again
    /\ last.pre.buffered /\ last.dev # <<>> => last.op = "commit"

\* A write_vectored of two bytes into a buffered writer.
C12_Witness ==
    /\ last.op = "write_vectored"
    /\ last.pre.buffered
    /\ last.req = 2
    /\ Ok
    /\ Content(Self) = Pattern(1, 2)

\* C13 as stated: on an unbuffered writer a write, or a write_vectored with
\* a slice that is not empty, of a length that fits issues exactly one device
\* write (single-buffer, vectored); it returns the count k the device took
\* with bytes_written advanced by k, or an error with bytes_written as it
\* was; the writer stays unbuffered.
C13_UnbufferedWriteThrough ==
    /\ last.op \in {"write", "write_vectored"}
    /\ ~last.pre.buffered
    /\ last.req <= PreFree
    /\ last.op = "write_vectored" => last.req > 0
    =>
    /\ Len(last.dev) = 1
    /\ last.dev[1].call = IF last.op = "write" THEN "write" ELSE "writev"
    /\ last.ret.kind \in {"Ok", "Other"}
    /\ Ok => bytes_written(Self) = last.pre.len + last.ret.val
    /\ ~Ok => bytes_written(Self) = last.pre.len
    /\ ~Self.buffered

\* C14 as stated: no call of a public Writer operation aborts.
C14_NoAbort == last.ret.kind # "panic"

\* C15: flush returns an error in every writer state, issues no device write
\* and leaves the writer (bytes_written, available_bytes, buffered) as it was.
C15_FlushRefused ==
    last.op = "flush" =>
        /\ last.ret.kind = "Other"
        /\ last.dev = <<>>
        /\ ~last.again
        /\ ~last.read
        /\ Self = last.pre
        /\ bytes_written(Self) = last.pre.len
        /\ available_bytes(Self) = PreFree

\* The writers made from the same message as writer id.
Family(id) == {j \in Ids : writers[j].fd = writers[id].fd}

\* Writer id was returned by split_at: Writer::new made an earlier writer of
\* its message.
IsSuffix(id) == \E j \in Family(id) : j < id

\* flush on a writer returned by split_at that holds bytes.
C15_Witness ==
    /\ last.op = "flush"
    /\ IsSuffix(last.w)
    /\ last.pre.buffered
    /\ last.pre.len > 0

\* C16 as stated: no operation on a writer returned by split_at issues a
\* device write.
C16_SiblingNeverWrites ==
    last.w \in Ids /\ IsSuffix(last.w) => last.dev = <<>>

\* C16 amended: a writer returned by split_at is buffered and issues no
\* device write through write, write_vectored, write_obj, write_from,
\* write_from_at, write_all_from, split_at or flush; commit called on it
\* issues one device write of its bytes followed by other's whenever the two
\* hold any.
C16_SiblingWritesOnlyOnCommit ==
    last.w \in Ids /\ IsSuffix(last.w) =>
        /\ Self.buffered
        /\ last.op # "commit" => last.dev = <<>> /\ ~last.again
        /\ last.op = "commit" =>
             LET o == IF last.other = 0 THEN <<>> ELSE Content(Other) IN
             IF Content(Self) \o o = <<>> THEN last.dev = <<>>
             ELSE /\ Len(last.dev) = 1
                  /\ Flatten(last.dev[1].segs) = Content(Self) \o o

\* commit(None) on a writer returned by split_at, which writes its bytes.
C16_Witness ==
    /\ last.op = "commit"
    /\ last.other = 0
    /\ IsSuffix(last.w)
    /\ Len(last.dev) = 1
    /\ last.dev[1].segs = <<Content(Self)>>

\* C17: split_at leaves the receiver and the returned writer buffered, no
\* step clears the buffered flag of a writer, and a write on a buffered writer
\* issues no device write.
C17_SplitMakesBuffered ==
    [][/\ \A id \in Ids : writers[id].buffered => writers'[id].buffered
       /\ last'.op = "split_at" /\ last'.ret.kind = "Ok" =>
            /\ writers'[last'.w].buffered
            /\ writers'[last'.other].buffered
       /\ last'.op \in WriteOps /\ last'.pre.buffered =>
            /\ last'.dev = <<>>
            /\ writers'[last'.w].buffered]_vars

\* A write that adds bytes to the receiver of an earlier split_at, which was
\* made by Writer::new, unbuffered.
C17_Witness ==
    /\ last.op \in WriteOps
    /\ last.w \in Ids
    /\ ~IsSuffix(last.w)
    /\ last.pre.buffered
    /\ Ok
    /\ bytes_written(Self) > last.pre.len
    /\ last.dev = <<>>

\* The addresses of a writer's region.
Range(w) == (w.ptr + 1)..(w.ptr + w.cap)

\* The writer Writer::new made for message fd.
FirstOf(fd) ==
    CHOOSE j \in Ids :
        writers[j].fd = fd /\ \A k \in 1..(j - 1) : writers[k].fd # fd

\* The addresses of the region Writer::new was given for message fd.
RegionOf(fd) ==
    (writers[FirstOf(fd)].ptr + 1)..
        (IF fd = Len(sent) THEN Len(mem) ELSE writers[FirstOf(fd + 1)].ptr)

RECURSIVE SumCap(_)
SumCap(ids) ==
    IF ids = {} THEN 0
    ELSE LET id == CHOOSE id \in ids : TRUE IN
         writers[id].cap + SumCap(ids \ {id})

\* C18: the regions of all writers are pairwise disjoint, those of the
\* writers of a message lie inside the region given to Writer::new and their
\* capacities sum to its size; a write call on one writer leaves every other
\* writer and the bytes of its region as they were.
C18_SplitsPartition ==
    /\ [](/\ \A i, j \in Ids :
               i # j => Range(writers[i]) \cap Range(writers[j]) = {}
          /\ \A i \in Ids : Range(writers[i]) \subseteq RegionOf(writers[i].fd)
          /\ \A i \in Ids : SumCap(Family(i))
                              = Cardinality(RegionOf(writers[i].fd)))
    /\ [][last'.op \in WriteOps =>
            \A id \in Ids \ {last'.w} :
                /\ writers'[id] = writers[id]
                /\ \A a \in Range(writers[id]) : mem'[a] = mem[a]]_vars

\* A message split into three writers, one of which is written to while
\* another holds bytes.
C18_Witness ==
    /\ last.op \in WriteOps
    /\ Ok
    /\ bytes_written(Self) > last.pre.len
    /\ Cardinality(Family(last.w)) = 3
    /\ \E id \in Family(last.w) : id # last.w /\ bytes_written(writers[id]) > 0

\* What a caller and the device see of a call: its result, the writer and
\* the memory it leaves, and the bytes of each device request.
Seen(ret, w, m, dev) ==
    [ret |-> ret, w |-> w, mem |-> m,
     dev |-> [i \in 1..Len(dev) |-> Flatten(dev[i].segs)]]

SeenOf(outs) == {Seen(r.ret, r.st.w, r.st.mem, r.st.dev) : r \in outs}

\* The state the last call started from (an append stores the same bytes at
\* the same place when it is made again).
PreView ==
    [mem |-> mem, w |-> last.pre, g |-> NewGhost, dev |-> <<>>, src |-> FALSE]

\* C19 as stated: what async_write, async_write2 and async_write3 return,
\* leave and hand to the driver is what write, or write_vectored of the same
\* slices, can return, leave and hand to the device from the same state.
C19_AsyncWritesLikeSync ==
    LET got == Seen(last.ret, Self, mem, last.dev) IN
    /\ last.op = "async_write" =>
         got \in SeenOf(write(PreView, Pattern(1, last.req)))
    /\ last.op = "async_write2" =>
         \E bufs \in PairArgs(PreFree) :
             /\ Len(Flatten(bufs)) = last.req
             /\ got \in SeenOf(write_vectored(PreView, bufs))
    /\ last.op = "async_write3" =>
         \E bufs \in SliceArgs(PreFree) :
             /\ Len(Flatten(bufs)) = last.req
             /\ got \in SeenOf(write_vectored(PreView, bufs))

\* C20 as stated: async_commit returns what commit can return from the same
\* writer and `other`, having issued the same device requests (the same
\* segments in the same order), none on a writer that is not buffered.
C20_AsyncCommitLikeCommit ==
    last.op = "async_commit" =>
        LET o == IF last.other = 0 THEN <<>> ELSE Content(Other) IN
        /\ [ret |-> last.ret,
            segs |-> [i \in 1..Len(last.dev) |-> last.dev[i].segs]]
             \in {[ret |-> c.ret,
                   segs |-> [i \in 1..Len(c.dev) |-> c.dev[i].segs]] :
                     c \in commit(last.pre, o)}
        /\ ~last.pre.buffered => last.ret = Ret("Ok", 0) /\ last.dev = <<>>

\* C21 as stated: a write_from or write_from_at that succeeds returns the
\* increase of bytes_written it caused, in buffered and in unbuffered mode,
\* also after a short transfer of the source or of the device.
C21_WriteFromReturnsIncrease ==
    last.op \in {"write_from", "write_from_at"} /\ Ok =>
        last.ret.val = bytes_written(Self) - last.pre.len

\* C22 as stated: write_all_from(count) with count <= available_bytes(), on
\* a writer that is buffered or has nothing written yet, repeats write_from until it returns Ok, with bytes_written increased by
\* exactly count, or WriteZero after a transfer of zero bytes, or the error of
\* a transfer other than Interrupted, which is retried and never returned.
C22_WriteAllFromTransfersCount ==
    /\ last.op = "write_all_from"
    /\ last.req <= PreFree
    /\ last.pre.buffered \/ last.pre.len = 0
    =>
        /\ last.ret.kind \in
             {"pending", "retry", "Ok", "WriteZero", "SourceError", "Other"}
        /\ Ok => bytes_written(Self) = last.pre.len + last.req
        /\ Returned => pc.op = "idle"

\* C25 as stated: a write call on a writer that is not buffered issues no
\* device write once a device write has been issued for that writer, whatever
\* count or error the first one produced.
C25_DirectWriteAtMostOnce ==
    last.op \in WriteOps /\ ~last.pre.buffered => ~last.again

\* C29 as stated: every byte that commit hands to the device was supplied by
\* an earlier write operation (the memory starts as 0, which no write
\* supplies).
C29_CommittedBytesWereWritten ==
    last.op = "commit" =>
        \A i \in 1..Len(last.dev) :
            \A b \in 1..Len(Flatten(last.dev[i].segs)) :
                Flatten(last.dev[i].segs)[b] # 0

\* C30 as stated: a write, write_vectored, write_from or write_from_at that
\* returns an error leaves bytes_written as it was.
C30_ErrorLeavesCursor ==
    /\ last.op \in {"write", "write_vectored", "write_from", "write_from_at"}
    /\ last.ret.kind \in {"InvalidData", "Interrupted", "SourceError", "Other"}
    => bytes_written(Self) = last.pre.len

\* C28: commit and async_commit, successful or failed, leave every writer
\* and the memory as they were, so that the device request they issued is the
\* one the same call issues when it is made again.
C28_CommitChangesNothing ==
    [][last'.op \in {"commit", "async_commit"} =>
         LET w == writers'[last'.w]
             s == Slice(mem', w)
             o == IF last'.other = 0 THEN <<>>
                  ELSE Slice(mem', writers'[last'.other])
         IN
         /\ writers' = writers
         /\ mem' = mem
         /\ last'.pre = w
         /\ last'.dev = IF last'.op = "async_commit"
                        THEN AsyncCommitRequests(s, o)
                        ELSE IF CommitSkips(w) THEN <<>>
                        ELSE CommitRequests(s, o)]_vars

\* A commit of two writers that is made a second time after the device has
\* refused it.
C28_Witness ==
    /\ last.op = "commit"
    /\ last.other # 0
    /\ last.again
    /\ last.ret.kind = "OsError"
    /\ Len(last.dev) = 1
    /\ last.dev[1].call = "writev"

\* C24: Reader::new succeeds with a Reader over one region equal to the
\* buffer, bytes_read() = 0 and available_bytes() = the buffer's length;
\* Writer::new succeeds with a writer with bytes_written() = 0, not buffered,
\* and available_bytes() = the region's length.
C24_NewIsEmpty ==
    /\ last.op = "reader_new" =>
         /\ Ok
         /\ readers[last.w].buffers = <<Pattern(1, last.req)>>
         /\ bytes_read(readers[last.w]) = 0
         /\ reader_available_bytes(readers[last.w]) = last.req
    /\ last.op = "new" =>
         /\ Ok
         /\ bytes_written(Self) = 0
         /\ ~Self.buffered
         /\ available_bytes(Self) = last.req
         /\ Range(Self) = (Len(mem) - last.req + 1)..Len(mem)

\* A writer made over a region of the largest size next to a reader made over
\* a buffer of that size.
C24_Witness ==
    /\ last.op = "new"
    /\ last.req = MaxCap
    /\ Len(readers) > 0
    /\ reader_available_bytes(readers[1]) = MaxCap
    /\ bytes_read(readers[1]) = 0

\* C27: async_read_to_at(count) returns Ok(0) without a driver call when
\* min(count, available_bytes()) is 0; else it issues one driver write of the
\* next min(count, available_bytes()) bytes and advances bytes_read by the
\* count the driver reports, or returns the driver's error with the reader as
\* it was; it never panics.
C27_AsyncReadToAt ==
    last.op = "async_read_to_at" =>
        LET r == readers[last.w]
            n == Min(last.req, reader_available_bytes(last.pre))
        IN
        /\ last.ret.kind \in {"Ok", "OsError"}
        /\ n = 0 => last.ret = Ret("Ok", 0) /\ last.dev = <<>> /\ r = last.pre
        /\ n > 0 =>
             /\ last.dev =
                  <<Req("write", <<SubSeq(Flatten(last.pre.buffers), 1, n)>>)>>
             /\ last.ret.val <= n
        /\ Ok => /\ bytes_read(r) = bytes_read(last.pre) + last.ret.val
                 /\ reader_available_bytes(r)
                      = reader_available_bytes(last.pre) - last.ret.val
                 /\ Flatten(r.buffers) =
                      SubSeq(Flatten(last.pre.buffers), last.ret.val + 1,
                             Len(Flatten(last.pre.buffers)))
        /\ ~Ok => r = last.pre
        /\ Len(r.buffers) <= 1

\* A read of which the driver transfers a part only.
C27_Witness ==
    /\ last.op = "async_read_to_at"
    /\ Len(last.dev) = 1
    /\ Ok
    /\ last.ret.val > 0
    /\ last.ret.val < Len(last.dev[1].segs[1])

\* C23: when an async write operation (async_write, async_write2,
\* async_write3, async_write_from_at, async_commit) is cancelled while a
\* driver transfer is outstanding, bytes_written is the value it had at the
\* call plus what the completed transfers of the call reported: the
\* outstanding transfer adds nothing, nothing accounted is taken back, and
\* the writer is otherwise as it was.
C23_CancelKeepsCursor ==
    last.ret.kind = "cancelled" =>
        /\ last.op \in TaskOps
        /\ last.dev # <<>> \/ last.read
        /\ bytes_written(Self) = last.pre.len + last.ret.val
        /\ Self.cap = last.pre.cap
        /\ Self.buffered = last.pre.buffered

\* An async_write_from_at cancelled during its device write, after its read
\* delivered bytes.
C23_Witness ==
    /\ last.ret.kind = "cancelled"
    /\ last.op = "async_write_from_at"
    /\ last.dev # <<>>
    /\ last.ret.val > 0

\* C26: write_all_from and async_write_all cannot loop forever: inside the
\* loop the remaining count is positive, and every turn of the loop ends the
\* call, or leaves a strictly smaller remaining count, or was Interrupted
\* and leaves the count and the writer as they were.
C26_LoopsDecrease ==
    /\ [](pc.op \in {"write_all_from", "async_write_all"} => pc.count > 0)
    /\ [][/\ pc.op = "write_all_from" =>
               \/ pc'.op = "idle"
               \/ pc'.count < pc.count
               \/ last'.ret.kind = "retry" /\ pc' = pc /\ writers' = writers
          /\ pc.op = "async_write_all" =>
               \/ pc'.op = "idle"
               \/ pc'.count < pc.count /\ Len(pc'.buf) = pc'.count]_vars

\* A write_all_from inside its loop after a partial transfer and then an
\* Interrupted one.
C26_Witness ==
    /\ pc.op = "write_all_from"
    /\ last.ret.kind = "retry"
    /\ pc.count < last.req
    /\ bytes_written(writers[pc.w]) > last.pre.len

Spec == Init /\ [][Next]_vars

SpecAsync == Init /\ [][NextAsync]_vars

SpecReader == Init /\ [][NextReader]_vars

SpecTasks == Init /\ [][NextTasks]_vars

====
